---- MODULE Spec2Model ----
(***************************************************************************)
(* A model of package flags (flags/flags.go): Parse, IterFields,           *)
(* IdentifyCommand, CommandFlags and CommandFlagSet, together with the     *)
(* part of Go's standard flag package that Parse drives (flag definition,  *)
(* FlagSet.Parse, FlagSet.Visit, FlagSet.Args).                            *)
(*                                                                         *)
(* A Go string is a sequence of one-character strings, so that             *)
(* strings.HasPrefix, strings.ToLower, the "-name=value" split and the     *)
(* numeric conversions are computed and not assumed.                       *)
(***************************************************************************)
EXTENDS Integers, Sequences, FiniteSets, TLC

(***************************************************************************)
(* Bounds of the model.                                                    *)
(***************************************************************************)
\* longest argument vector (os.Args[1:]) a process is started with
MaxArgs == 3
\* longest argument sequence given to IdentifyCommand / CommandFlags alone
MaxFnArgs == 3
\* number of Parse calls one process makes in SpecRepeat
MaxCalls == 2
\* longest argument vector of a process in SpecRepeat
MaxRepeatArgs == 2

(***************************************************************************)
(* Strings.                                                                *)
(***************************************************************************)
\* the bytes that occur in the model's strings, in increasing byte order
Alphabet ==
  << "+", "-", "0", "1", "2", "3", "4", "5", "6", "7", "8", "9", "=",
     "A", "B", "C", "D", "E", "F", "G", "H", "I", "J", "K", "L", "M",
     "N", "O", "P", "Q", "R", "S", "T", "U", "V", "W", "X", "Y", "Z",
     "a", "b", "c", "d", "e", "f", "g", "h", "i", "j", "k", "l", "m",
     "n", "o", "p", "q", "r", "s", "t", "u", "v", "w", "x", "y", "z" >>

Ord(c) == CHOOSE i \in 1..Len(Alphabet) : Alphabet[i] = c

UpperCase == << "A", "B", "C", "D", "E", "F", "G", "H", "I", "J", "K", "L", "M",
                "N", "O", "P", "Q", "R", "S", "T", "U", "V", "W", "X", "Y", "Z" >>

LowerCase == << "a", "b", "c", "d", "e", "f", "g", "h", "i", "j", "k", "l", "m",
                "n", "o", "p", "q", "r", "s", "t", "u", "v", "w", "x", "y", "z" >>

\* strings.ToLower
ToLower(s) ==
  [i \in 1..Len(s) |->
     IF \E k \in 1..Len(UpperCase) : UpperCase[k] = s[i]
     THEN LowerCase[CHOOSE k \in 1..Len(UpperCase) : UpperCase[k] = s[i]]
     ELSE s[i]]

\* strings.HasPrefix
HasPrefix(s, p) == Len(s) >= Len(p) /\ SubSeq(s, 1, Len(p)) = p

\* strings.Contains(s, c) for a one-byte c
ContainsByte(s, c) == \E i \in 1..Len(s) : s[i] = c

\* Go's < on strings: bytewise lexicographic order
StrLess(a, b) ==
  \E k \in 1..(Len(b)) :
     /\ \A j \in 1..(k - 1) : j <= Len(a) /\ a[j] = b[j]
     /\ \/ Len(a) = k - 1
        \/ Len(a) >= k /\ Ord(a[k]) < Ord(b[k])

\* s[from:] on a Go slice or string, from counted from 0
Tail0(s, from) == SubSeq(s, from + 1, Len(s))

(***************************************************************************)
(* Values held by struct fields and by flag variables.  One record shape   *)
(* for the three kinds the package supports; the unused parts stay zero.   *)
(***************************************************************************)
BoolVal(b)   == [kind |-> "bool",   b |-> b,     i |-> 0, s |-> << >>]
IntVal(i)    == [kind |-> "int",    b |-> FALSE, i |-> i, s |-> << >>]
StringVal(s) == [kind |-> "string", b |-> FALSE, i |-> 0, s |-> s]
OtherVal     == [kind |-> "other",  b |-> FALSE, i |-> 0, s |-> << >>]

\* the zero value of a Go type of the given reflect.Kind
ZeroOf(kind) ==
  CASE kind = "bool"   -> BoolVal(FALSE)
    [] kind = "int"    -> IntVal(0)
    [] kind = "string" -> StringVal(<< >>)
    [] OTHER           -> OtherVal

(***************************************************************************)
(* The conversions the flag package applies to a flag's text               *)
(* (boolValue.Set -> strconv.ParseBool, intValue.Set ->                    *)
(* strconv.ParseInt(s, 0, strconv.IntSize), stringValue.Set).  A failed    *)
(* conversion is the record Invalid.  The digit separator "_" does not     *)
(* occur in the model's strings.                                           *)
(***************************************************************************)
Invalid == [kind |-> "invalid", b |-> FALSE, i |-> 0, s |-> << >>]

TrueTexts ==
  { <<"1">>, <<"t">>, <<"T">>, <<"T","R","U","E">>, <<"t","r","u","e">>, <<"T","r","u","e">> }

FalseTexts ==
  { <<"0">>, <<"f">>, <<"F">>, <<"F","A","L","S","E">>, <<"f","a","l","s","e">>,
    <<"F","a","l","s","e">> }

ParseBool(s) ==
  IF s \in TrueTexts THEN BoolVal(TRUE)
  ELSE IF s \in FalseTexts THEN BoolVal(FALSE)
  ELSE Invalid

DecDigits == << "0", "1", "2", "3", "4", "5", "6", "7", "8", "9" >>

\* the value of a digit byte, or 99 when the byte is no digit or letter
DigitOf(c) ==
  IF \E k \in 1..10 : DecDigits[k] = c
  THEN (CHOOSE k \in 1..10 : DecDigits[k] = c) - 1
  ELSE IF \E k \in 1..26 : LowerCase[k] = c \/ UpperCase[k] = c
  THEN (CHOOSE k \in 1..26 : LowerCase[k] = c \/ UpperCase[k] = c) + 9
  ELSE 99

\* the digit loop of strconv.ParseUint: -1 on a syntax error
RECURSIVE UintDigits(_, _, _)
UintDigits(s, base, n) ==
  IF s = << >> THEN n
  ELSE IF DigitOf(s[1]) >= base THEN -1
  ELSE UintDigits(Tail(s), base, n * base + DigitOf(s[1]))

\* strconv.ParseUint(s, 0, 64): base chosen by the prefix; -1 on a syntax error
ParseUint0(s) ==
  IF s = << >> THEN -1
  ELSE IF s[1] # "0" THEN UintDigits(s, 10, 0)
  ELSE IF Len(s) >= 3 /\ s[2] \in {"b", "B"} THEN UintDigits(Tail0(s, 2), 2, 0)
  ELSE IF Len(s) >= 3 /\ s[2] \in {"o", "O"} THEN UintDigits(Tail0(s, 2), 8, 0)
  ELSE IF Len(s) >= 3 /\ s[2] \in {"x", "X"} THEN UintDigits(Tail0(s, 2), 16, 0)
  ELSE UintDigits(Tail0(s, 1), 8, 0)

\* strconv.ParseInt(s, 0, strconv.IntSize).  The model's numerals have a few
\* digits, far below 2^63, so the range error of ParseInt cannot arise.
ParseInt(s) ==
  IF s = << >> THEN Invalid
  ELSE LET neg  == s[1] = "-"
           body == IF s[1] \in {"+", "-"} THEN Tail(s) ELSE s
           un   == ParseUint0(body)
       IN  IF un = -1 THEN Invalid
           ELSE IntVal(IF neg THEN 0 - un ELSE un)

\* Value.Set for a flag variable of the given kind
SetText(kind, s) ==
  CASE kind = "bool"   -> ParseBool(s)
    [] kind = "int"    -> ParseInt(s)
    [] kind = "string" -> StringVal(s)
    [] OTHER           -> Invalid

(***************************************************************************)
(* Schemas.  A struct type is the sequence of its fields; a field has a    *)
(* name, a reflect.Kind, the `short` struct tag (the empty string when the *)
(* tag is absent) and, for a nested struct, its own fields.                *)
(***************************************************************************)
Scalar(name, kind, short) ==
  [name |-> name, kind |-> kind, short |-> short, fields |-> << >>]

Group(name, fields) ==
  [name |-> name, kind |-> "struct", short |-> << >>, fields |-> fields]

\* struct { Dbg bool `short:"d"`; Num int `short:"n"`; Msg string `short:"m"` }
FlatSchema ==
  << Scalar(<<"D","b","g">>, "bool",   <<"d">>),
     Scalar(<<"N","u","m">>, "int",    <<"n">>),
     Scalar(<<"M","s","g">>, "string", <<"m">>) >>

\* struct { Dbg bool `short:"d"`; Msg string `short:"m"`
\*          Foo struct { Aa string `short:"a"` }
\*          Bar struct { Aa string `short:"z"`; Cc bool `short:"c"` } }
CmdSchema ==
  << Scalar(<<"D","b","g">>, "bool",   <<"d">>),
     Scalar(<<"M","s","g">>, "string", <<"m">>),
     Group(<<"F","o","o">>, << Scalar(<<"A","a">>, "string", <<"a">>) >>),
     Group(<<"B","a","r">>, << Scalar(<<"A","a">>, "string", <<"z">>),
                               Scalar(<<"C","c">>, "bool",   <<"c">>) >>) >>

(***************************************************************************)
(* What a caller can hand to Parse(s interface{}): the nil interface, a    *)
(* pointer (possibly nil) or a plain value, of a struct or another kind.   *)
(***************************************************************************)
NilRoot        == [ref |-> "nil", isnil |-> TRUE,  kind |-> "invalid", fields |-> << >>]
PtrTo(fields)  == [ref |-> "ptr", isnil |-> FALSE, kind |-> "struct",  fields |-> fields]
ValueOfStruct(fields) ==
                  [ref |-> "val", isnil |-> FALSE, kind |-> "struct",  fields |-> fields]
NilPtr(fields) == [ref |-> "ptr", isnil |-> TRUE,  kind |-> "struct",  fields |-> fields]
PtrToKind(k)   == [ref |-> "ptr", isnil |-> FALSE, kind |-> k,         fields |-> << >>]
ValueOfKind(k) == [ref |-> "val", isnil |-> FALSE, kind |-> k,         fields |-> << >>]

Roots ==
  { PtrTo(FlatSchema), PtrTo(CmdSchema), ValueOfStruct(FlatSchema),
    NilRoot, NilPtr(FlatSchema), PtrToKind("int"), ValueOfKind("map") }

\* the roots that are a struct or a usable pointer to one
StructRoots == { r \in Roots : r.kind = "struct" /\ ~r.isnil }

(***************************************************************************)
(* reflect.                                                                *)
(***************************************************************************)
\* the zero reflect.Value
ZeroValue == [valid |-> FALSE, kind |-> "invalid", addressable |-> FALSE, fields |-> << >>]

\* reflect.Indirect(reflect.ValueOf(s)): ValueOf(nil) is the zero Value, and
\* Indirect of a pointer is its Elem(), the zero Value for a nil pointer
IndirectValueOf(s) ==
  IF s.ref = "nil" THEN ZeroValue
  ELSE IF s.ref = "ptr"
  THEN IF s.isnil THEN ZeroValue
       ELSE [valid |-> TRUE, kind |-> s.kind, addressable |-> TRUE, fields |-> s.fields]
  ELSE [valid |-> TRUE, kind |-> s.kind, addressable |-> FALSE, fields |-> s.fields]

\* a field name is exported when it starts with an upper-case letter
IsExported(name) == name # << >> /\ \E k \in 1..Len(UpperCase) : UpperCase[k] = name[1]

\* the struct value behind the root: one value per scalar field, a sequence of
\* values per nested struct
ZeroStruct(fields) ==
  [i \in 1..Len(fields) |->
     IF fields[i].kind = "struct"
     THEN [j \in 1..Len(fields[i].fields) |-> ZeroOf(fields[i].fields[j].kind)]
     ELSE ZeroOf(fields[i].kind)]

(***************************************************************************)
(* IterFields.  The callback invocations it makes, in order, each with the *)
(* field's place in the struct (path), its StructField and the variadic    *)
(* cmd argument; and the names it records in the package-level cmds.       *)
(***************************************************************************)
RECURSIVE Flatten(_)
Flatten(ss) == IF ss = << >> THEN << >> ELSE Head(ss) \o Flatten(Tail(ss))

\* the indexes j >= from of the nested struct's fields with field.Field(j).CanSet()
RECURSIVE SettableFrom(_, _, _)
SettableFrom(v, sf, from) ==
  IF from > Len(sf.fields) THEN << >>
  ELSE (IF v.addressable /\ IsExported(sf.fields[from].name) THEN << from >> ELSE << >>)
       \o SettableFrom(v, sf, from + 1)

\* the callbacks made for top-level field i
FieldVisits(recurse, v, i) ==
  LET sf == v.fields[i] IN
  IF sf.kind = "struct"
  THEN \* recurse && field.CanInterface()
       IF recurse /\ IsExported(sf.name)
       THEN LET js == SettableFrom(v, sf, 1)
            IN  [k \in 1..Len(js) |->
                   [path |-> << i, js[k] >>, sf |-> sf.fields[js[k]],
                    cmd |-> << ToLower(sf.name) >>]]
       ELSE << >>
  ELSE \* !recurse && field.CanSet()
       IF ~recurse /\ v.addressable /\ IsExported(sf.name)
       THEN << [path |-> << i >>, sf |-> sf, cmd |-> << >>] >>
       ELSE << >>

IterFields(recurse, v) ==
  Flatten([i \in 1..Len(v.fields) |-> FieldVisits(recurse, v, i)])

\* cmds after IterFields has run over v
IterFieldsCmds(v, registry) ==
  registry \cup { ToLower(v.fields[i].name) :
                    i \in { k \in 1..Len(v.fields) : v.fields[k].kind = "struct" } }

(***************************************************************************)
(* Package flag of the standard library, as far as Parse uses it.  A       *)
(* FlagSet has its name, the defined flags (formal: name -> kind and the   *)
(* variable the flag writes), the variables' values, the names of the      *)
(* flags that were set (actual) and the arguments left after parsing.      *)
(***************************************************************************)
EmptyFn == [x \in {} |-> x]

\* flag.NewFlagSet(name, errorHandling)
NewFlagSet(name, errorHandling) ==
  [name |-> name, errorHandling |-> errorHandling, formal |-> EmptyFn, vals |-> EmptyFn,
   actual |-> {}, args |-> << >>]

\* flag.CommandLine, which the standard library makes as
\* NewFlagSet(os.Args[0], ExitOnError)
NewCommandLine == NewFlagSet(<<"p","r","o","g">>, "ExitOnError")

\* FlagSet.Var: panics when the name begins with "-", contains "=" or is already defined
Var(fs, name, kind, cell) ==
  IF HasPrefix(name, <<"-">>) \/ ContainsByte(name, "=") \/ name \in DOMAIN fs.formal
  THEN [panic |-> TRUE, fs |-> fs]
  ELSE [panic |-> FALSE,
        fs |-> [fs EXCEPT !.formal = (name :> [kind |-> kind, cell |-> cell]) @@ @]]

\* the callback that defines a field's flags: one variable, `var v T`, given to
\* XxxVar twice, under the lower-cased field name and under the short tag
\* (each XxxVar stores the default in the variable)
RegisterField(fs, sf) ==
  IF sf.kind \in {"bool", "int", "string"}
  THEN LET long  == ToLower(sf.name)
           first == Var(fs, long, sf.kind, long)
           fresh == [first.fs EXCEPT !.vals = (long :> ZeroOf(sf.kind)) @@ @]
       IN  IF first.panic THEN first ELSE Var(fresh, sf.short, sf.kind, long)
  ELSE [panic |-> FALSE, fs |-> fs]

\* the callback applied to every visit of an IterFields run, until one panics
RECURSIVE RegisterAll(_, _)
RegisterAll(fs, visits) ==
  IF visits = << >> THEN [panic |-> FALSE, fs |-> fs]
  ELSE LET r == RegisterField(fs, Head(visits).sf)
       IN  IF r.panic THEN r ELSE RegisterAll(r.fs, Tail(visits))

\* the position of the first "=" of name after its first byte, or 0
RECURSIVE EqualsAt(_, _)
EqualsAt(name, i) ==
  IF i > Len(name) THEN 0
  ELSE IF name[i] = "=" THEN i
  ELSE EqualsAt(name, i + 1)

HelpNames == { <<"h","e","l","p">>, <<"h">> }

\* FlagSet.parseOne: seen tells that a flag was parsed, err is "nil", "help" (ErrHelp)
\* or "fail" (the failf errors)
ParseOne(fs) ==
  LET Stop(f)  == [seen |-> FALSE, err |-> "nil",  fs |-> f]
      Fail(f)  == [seen |-> FALSE, err |-> "fail", fs |-> f]
      Help(f)  == [seen |-> FALSE, err |-> "help", fs |-> f]
  IN
  IF Len(fs.args) = 0 THEN Stop(fs)
  ELSE
  LET s == fs.args[1] IN
  IF Len(s) < 2 \/ s[1] # "-" THEN Stop(fs)
  ELSE
  LET numMinuses == IF s[2] = "-" THEN 2 ELSE 1 IN
  IF numMinuses = 2 /\ Len(s) = 2 THEN Stop([fs EXCEPT !.args = Tail(@)])
  ELSE
  LET name0 == Tail0(s, numMinuses) IN
  IF Len(name0) = 0 \/ name0[1] = "-" \/ name0[1] = "=" THEN Fail(fs)
  ELSE
  LET rest     == Tail(fs.args)
      eq       == EqualsAt(name0, 2)
      hasValue == eq # 0
      value    == IF hasValue THEN Tail0(name0, eq) ELSE << >>
      name     == IF hasValue THEN SubSeq(name0, 1, eq - 1) ELSE name0
      f1       == [fs EXCEPT !.args = rest]
  IN
  IF name \notin DOMAIN fs.formal
  THEN IF name \in HelpNames THEN Help(f1) ELSE Fail(f1)
  ELSE
  LET flag == fs.formal[name]
      Store(f, val) ==
        IF val.kind = "invalid" THEN Fail(f)
        ELSE [seen |-> TRUE, err |-> "nil",
              fs |-> [f EXCEPT !.vals[flag.cell] = val, !.actual = @ \cup {name}]]
  IN
  IF flag.kind = "bool"
  THEN Store(f1, SetText("bool", IF hasValue THEN value ELSE <<"t","r","u","e">>))
  ELSE IF hasValue THEN Store(f1, SetText(flag.kind, value))
  ELSE IF Len(rest) > 0
       THEN Store([f1 EXCEPT !.args = Tail(rest)], SetText(flag.kind, rest[1]))
       ELSE Fail(f1)

\* the loop of FlagSet.Parse
RECURSIVE ParseLoop(_)
ParseLoop(fs) ==
  LET r == ParseOne(fs)
  IN  IF r.seen THEN ParseLoop(r.fs) ELSE r

\* FlagSet.Parse(arguments): with ExitOnError an error never comes back to the
\* caller, the process ends in os.Exit; otherwise the error is returned
FlagSetParse(fs, arguments) ==
  LET r == ParseLoop([fs EXCEPT !.args = arguments])
  IN  [exit |-> r.err # "nil" /\ fs.errorHandling = "ExitOnError", err |-> r.err, fs |-> r.fs]

\* sortFlags: the names of a set of flags in increasing (bytewise) order
RECURSIVE SortNames(_)
SortNames(names) ==
  IF names = {} THEN << >>
  ELSE LET least == CHOOSE n \in names : \A m \in names \ {n} : StrLess(n, m)
       IN  << least >> \o SortNames(names \ {least})

\* FlagSet.Visit: the flags that have been set, in sorted order
Visit(fs) == SortNames(fs.actual)

(***************************************************************************)
(* Binding: the callback Parse passes to IterFields after each parse.      *)
(***************************************************************************)
SetAt(inst, path, val) ==
  IF Len(path) = 1 THEN [inst EXCEPT ![path[1]] = val]
  ELSE [inst EXCEPT ![path[1]][path[2]] = val]

\* BindFlag with the name test reduced to the long name (the short alias forgotten)
BindFlag_LongNameOnly(fs, inst, visit, f) ==
  IF f = ToLower(visit.sf.name)
  THEN IF visit.sf.kind \in {"bool", "int", "string"}
          /\ fs.formal[f].kind = visit.sf.kind
       THEN SetAt(inst, visit.path, fs.vals[fs.formal[f].cell])
       ELSE inst
  ELSE inst

\* the body run for one set flag f and one field: the name test, the switch
\* on field.Kind() and the type assertion on getter.Get()
BindFlag(fs, inst, visit, f) ==
  IF f = ToLower(visit.sf.name) \/ f = visit.sf.short
  THEN IF visit.sf.kind \in {"bool", "int", "string"}
          /\ fs.formal[f].kind = visit.sf.kind
       THEN SetAt(inst, visit.path, fs.vals[fs.formal[f].cell])
       ELSE inst
  ELSE inst

RECURSIVE BindField(_, _, _, _)
BindField(fs, inst, visit, flags) ==
  IF flags = << >> THEN inst
  ELSE BindField(fs, BindFlag(fs, inst, visit, Head(flags)), visit, Tail(flags))

RECURSIVE BindAll(_, _, _)
BindAll(fs, inst, visits) ==
  IF visits = << >> THEN inst
  ELSE BindAll(fs, BindField(fs, inst, Head(visits), Visit(fs)), Tail(visits))

(***************************************************************************)
(* IdentifyCommand, CommandFlags, CommandFlagSet.                          *)
(***************************************************************************)
\* the range loop of IdentifyCommand from args[k] on (k counted from 1)
RECURSIVE IdentifyLoop(_, _, _, _)
IdentifyLoop(registry, args, k, st) ==
  IF k > Len(args) \/ st.commandSeen THEN st
  ELSE IF HasPrefix(args[k], <<"-">>)
  THEN IdentifyLoop(registry, args, k + 1, [st EXCEPT !.commandIndex = @ + 1])
  ELSE IF args[k] \in registry
  THEN IdentifyLoop(registry, args, k + 1, [st EXCEPT !.commandSeen = TRUE])
  ELSE IdentifyLoop(registry, args, k + 1, [st EXCEPT !.commandIndex = @ + 1])

\* IdentifyCommand without the strings.HasPrefix(arg, "-") test
RECURSIVE IdentifyLoop_NoFlagSkip(_, _, _, _)
IdentifyLoop_NoFlagSkip(registry, args, k, st) ==
  IF k > Len(args) \/ st.commandSeen THEN st
  ELSE IF args[k] \in registry
  THEN IdentifyLoop_NoFlagSkip(registry, args, k + 1, [st EXCEPT !.commandSeen = TRUE])
  ELSE IdentifyLoop_NoFlagSkip(registry, args, k + 1, [st EXCEPT !.commandIndex = @ + 1])

IdentifyCommand_NoFlagSkip(registry, args) ==
  LET st == IdentifyLoop_NoFlagSkip(registry, args, 1,
                                    [commandIndex |-> 0, commandSeen |-> FALSE])
  IN  IF ~st.commandSeen THEN << >> ELSE args[st.commandIndex + 1]

IdentifyCommand(registry, args) ==
  LET st == IdentifyLoop(registry, args, 1, [commandIndex |-> 0, commandSeen |-> FALSE])
  IN  IF ~st.commandSeen THEN << >> ELSE args[st.commandIndex + 1]

\* the range loop of CommandFlags from args[k] on (k counted from 1)
RECURSIVE CommandFlagsFrom(_, _, _)
CommandFlagsFrom(c, args, k) ==
  IF k > Len(args) THEN << >>
  ELSE IF args[k] = c THEN SubSeq(args, k + 1, Len(args))
  ELSE CommandFlagsFrom(c, args, k + 1)

CommandFlags(c, args) == CommandFlagsFrom(c, args, 1)

\* the visits of the deep walk whose callback passes `currentCmd[0] == cmd`
RECURSIVE VisitsOf(_, _)
VisitsOf(c, visits) ==
  IF visits = << >> THEN << >>
  ELSE (IF Head(visits).cmd[1] = c THEN << Head(visits) >> ELSE << >>)
       \o VisitsOf(c, Tail(visits))

\* cfs := flag.NewFlagSet(cmd, flag.ExitOnError), then the flags of cmd's fields
CommandFlagSet(c, v) ==
  RegisterAll(NewFlagSet(c, "ExitOnError"), VisitsOf(c, IterFields(TRUE, v)))

(***************************************************************************)
(* The process.                                                            *)
(***************************************************************************)
VARIABLES
  osArgs,       \* os.Args[1:]
  cmds,         \* the package-level map cmds (its keys)
  CommandLine,  \* flag.CommandLine, the FlagSet behind flag.BoolVar, flag.Parse, ...
  proc,         \* "running", "exited" (os.Exit) or "panicked"
  calls,        \* the number of Parse calls made so far
  pc,           \* where the current Parse call stands; "idle" before the first call
  s,            \* the argument of the current Parse call
  inst,         \* the struct value behind s
  cmd,          \* Parse's local cmd
  cmdFlags,     \* Parse's local cmdFlags
  cfs,          \* Parse's local cfs: whether it was built, whether it parsed, the FlagSet
  ret,          \* what Parse returned: "none" (not returned), "nil", "ErrNoArgs",
                \* "ErrWrongType", or "FlagError" (the error of cfs.Parse)
  fnPc,         \* for the functions called on their own: "ready", "identified", "partitioned"
  fnRegistry,   \* the cmds argument of IdentifyCommand
  fnArgs,       \* the args argument of IdentifyCommand / CommandFlags
  fnCmd,        \* the cmd argument of CommandFlags
  fnOut         \* the result of the function called

procVars == << osArgs, cmds, CommandLine, proc, calls, pc, s, inst, cmd, cmdFlags, cfs, ret >>
fnVars   == << fnPc, fnRegistry, fnArgs, fnCmd, fnOut >>
vars     == << osArgs, cmds, CommandLine, proc, calls, pc, s, inst, cmd, cmdFlags, cfs, ret,
               fnPc, fnRegistry, fnArgs, fnCmd, fnOut >>

\* the arguments a process may be started with
ArgTokens ==
  { <<"-","d">>, <<"-","d","b","g">>, <<"-","d","=","0">>, <<"-","n">>, <<"7">>, <<"-","m">>,
    <<"f","o","o">>, <<"b","a","r">>, <<"-","a">>, <<"-","a","a">>, <<"-","c">>,
    <<"-","-">>, << >> }

\* the strings the functions are called with on their own
FnTokens == { << >>, <<"f","o","o">>, <<"-","f","o","o">>, <<"b","a","r">> }
FnNames  == { << >>, <<"f","o","o">>, <<"-","f","o","o">> }

SeqsUpTo(S, n) == UNION { [1..k -> S] : k \in 0..n }

NoCfs == [built |-> FALSE, parsed |-> FALSE, fs |-> NewFlagSet(<< >>, "ExitOnError")]

ProcInit(maxArgs) ==
  /\ osArgs \in SeqsUpTo(ArgTokens, maxArgs)
  /\ cmds = {}
  /\ CommandLine = NewCommandLine
  /\ proc = "running"
  /\ calls = 0
  /\ pc = "idle"
  /\ s = NilRoot
  /\ inst = << >>
  /\ cmd = << >>
  /\ cmdFlags = << >>
  /\ cfs = NoCfs
  /\ ret = "none"

FnIdle ==
  /\ fnPc = "off"
  /\ fnRegistry = {}
  /\ fnArgs = << >>
  /\ fnCmd = << >>
  /\ fnOut = << >>

Init == ProcInit(MaxArgs) /\ FnIdle

\* the caller starts Parse(root); the struct behind root holds zero values
Enter(root) ==
  /\ proc = "running"
  /\ calls' = calls + 1
  /\ s' = root
  /\ inst' = ZeroStruct(root.fields)
  /\ cmd' = << >>
  /\ cmdFlags' = << >>
  /\ cfs' = NoCfs
  /\ ret' = "none"
  /\ pc' = "Start"
  /\ UNCHANGED << osArgs, cmds, CommandLine, proc >>
  /\ UNCHANGED fnVars

Call == pc = "idle" /\ \E root \in Roots : Enter(root)

CallAgain == pc = "Done" /\ calls < MaxCalls /\ \E root \in Roots : Enter(root)

Return(err) == pc' = "Done" /\ ret' = err

\* Start without the len(args) == 0 test
Start_NoLengthCheck ==
  /\ pc = "Start"
  /\ pc' = "ValidateRoot"
  /\ UNCHANGED << osArgs, cmds, CommandLine, proc, calls, s, inst, cmd, cmdFlags, cfs, ret >>
  /\ UNCHANGED fnVars

\* flags.go 23-26
Start ==
  /\ pc = "Start"
  /\ IF Len(osArgs) = 0 THEN Return("ErrNoArgs") ELSE pc' = "ValidateRoot" /\ ret' = ret
  /\ UNCHANGED << osArgs, cmds, CommandLine, proc, calls, s, inst, cmd, cmdFlags, cfs >>
  /\ UNCHANGED fnVars

\* flags.go 31-46: v.Type() panics on the zero Value
ValidateRoot ==
  /\ pc = "ValidateRoot"
  /\ LET v == IndirectValueOf(s) IN
     IF ~v.valid THEN proc' = "panicked" /\ pc' = "Dead" /\ ret' = ret
     ELSE IF v.kind # "struct" THEN Return("ErrWrongType") /\ proc' = proc
     ELSE pc' = "RegisterGlobalFlags" /\ ret' = ret /\ proc' = proc
  /\ UNCHANGED << osArgs, cmds, CommandLine, calls, s, inst, cmd, cmdFlags, cfs >>
  /\ UNCHANGED fnVars

\* flags.go 58-73
RegisterGlobalFlags ==
  /\ pc = "RegisterGlobalFlags"
  /\ LET v == IndirectValueOf(s)
         r == RegisterAll(CommandLine, IterFields(FALSE, v))
     IN  /\ CommandLine' = r.fs
         /\ cmds' = IterFieldsCmds(v, cmds)
         /\ IF r.panic THEN proc' = "panicked" /\ pc' = "Dead"
            ELSE proc' = proc /\ pc' = "ParseGlobalArgs"
  /\ UNCHANGED << osArgs, calls, s, inst, cmd, cmdFlags, cfs, ret >>
  /\ UNCHANGED fnVars

\* flags.go 75: flag.Parse() is CommandLine.Parse(os.Args[1:]) with the error dropped
ParseGlobalArgs ==
  /\ pc = "ParseGlobalArgs"
  /\ LET r == FlagSetParse(CommandLine, osArgs)
     IN  /\ CommandLine' = r.fs
         /\ IF r.exit THEN proc' = "exited" /\ pc' = "Dead"
            ELSE proc' = proc /\ pc' = "BindGlobal"
  /\ UNCHANGED << osArgs, cmds, calls, s, inst, cmd, cmdFlags, cfs, ret >>
  /\ UNCHANGED fnVars

\* flags.go 80-108
BindGlobal ==
  /\ pc = "BindGlobal"
  /\ LET v == IndirectValueOf(s)
     IN  /\ inst' = BindAll(CommandLine, inst, IterFields(FALSE, v))
         /\ cmds' = IterFieldsCmds(v, cmds)
  /\ pc' = "IdentifyCommand"
  /\ UNCHANGED << osArgs, CommandLine, proc, calls, s, cmd, cmdFlags, cfs, ret >>
  /\ UNCHANGED fnVars

\* flags.go 110
IdentifyCommandStep ==
  /\ pc = "IdentifyCommand"
  /\ cmd' = IdentifyCommand(cmds, osArgs)
  /\ pc' = "PartitionArgs"
  /\ UNCHANGED << osArgs, cmds, CommandLine, proc, calls, s, inst, cmdFlags, cfs, ret >>
  /\ UNCHANGED fnVars

\* flags.go 111: flag.Args() is what CommandLine.Parse left
PartitionArgs ==
  /\ pc = "PartitionArgs"
  /\ cmdFlags' = CommandFlags(cmd, CommandLine.args)
  /\ pc' = "RegisterCommandFlags"
  /\ UNCHANGED << osArgs, cmds, CommandLine, proc, calls, s, inst, cmd, cfs, ret >>
  /\ UNCHANGED fnVars

\* flags.go 113
RegisterCommandFlags ==
  /\ pc = "RegisterCommandFlags"
  /\ LET v == IndirectValueOf(s)
         r == CommandFlagSet(cmd, v)
     IN  /\ cfs' = [built |-> TRUE, parsed |-> FALSE, fs |-> r.fs]
         /\ cmds' = IterFieldsCmds(v, cmds)
         /\ IF r.panic THEN proc' = "panicked" /\ pc' = "Dead"
            ELSE proc' = proc /\ pc' = "ParseCommandArgs"
  /\ UNCHANGED << osArgs, CommandLine, calls, s, inst, cmd, cmdFlags, ret >>
  /\ UNCHANGED fnVars

\* flags.go 114-117
ParseCommandArgs ==
  /\ pc = "ParseCommandArgs"
  /\ LET r == FlagSetParse(cfs.fs, cmdFlags)
     IN  /\ cfs' = [built |-> TRUE, parsed |-> TRUE, fs |-> r.fs]
         /\ IF r.exit THEN proc' = "exited" /\ pc' = "Dead" /\ ret' = ret
            ELSE IF r.err # "nil" THEN proc' = proc /\ Return("FlagError")
            ELSE proc' = proc /\ pc' = "BindCommand" /\ ret' = ret
  /\ UNCHANGED << osArgs, cmds, CommandLine, calls, s, inst, cmd, cmdFlags >>
  /\ UNCHANGED fnVars

\* flags.go 119-154
BindCommand ==
  /\ pc = "BindCommand"
  /\ LET v == IndirectValueOf(s)
     IN  /\ inst' = BindAll(cfs.fs, inst, IterFields(TRUE, v))
         /\ cmds' = IterFieldsCmds(v, cmds)
  /\ Return("nil")
  /\ UNCHANGED << osArgs, CommandLine, proc, calls, s, cmd, cmdFlags, cfs >>
  /\ UNCHANGED fnVars

ParseStep ==
  \/ Start
  \/ ValidateRoot
  \/ RegisterGlobalFlags
  \/ ParseGlobalArgs
  \/ BindGlobal
  \/ IdentifyCommandStep
  \/ PartitionArgs
  \/ RegisterCommandFlags
  \/ ParseCommandArgs
  \/ BindCommand

\* a process that calls Parse once
Next == Call \/ ParseStep

Spec == Init /\ [][Next]_vars

\* IdentifyCommand and CommandFlags are exported: a caller may use them alone
ProcOff ==
  /\ osArgs = << >>
  /\ cmds = {}
  /\ CommandLine = NewCommandLine
  /\ proc = "running"
  /\ calls = 0
  /\ pc = "off"
  /\ s = NilRoot
  /\ inst = << >>
  /\ cmd = << >>
  /\ cmdFlags = << >>
  /\ cfs = NoCfs
  /\ ret = "none"

InitFn ==
  /\ ProcOff
  /\ fnPc = "ready"
  /\ fnRegistry \in SUBSET FnNames
  /\ fnArgs \in SeqsUpTo(FnTokens, MaxFnArgs)
  /\ fnCmd \in FnTokens
  /\ fnOut = << >>

CallIdentifyCommand ==
  /\ fnPc = "ready"
  /\ fnOut' = IdentifyCommand(fnRegistry, fnArgs)
  /\ fnPc' = "identified"
  /\ UNCHANGED << fnRegistry, fnArgs, fnCmd >>
  /\ UNCHANGED procVars

CallCommandFlags ==
  /\ fnPc = "ready"
  /\ fnOut' = CommandFlags(fnCmd, fnArgs)
  /\ fnPc' = "partitioned"
  /\ UNCHANGED << fnRegistry, fnArgs, fnCmd >>
  /\ UNCHANGED procVars

NextFn == CallIdentifyCommand \/ CallCommandFlags

SpecFn == InitFn /\ [][NextFn]_vars

\* a process that calls Parse up to MaxCalls times
InitRepeat == ProcInit(MaxRepeatArgs) /\ FnIdle

NextRepeat == Call \/ CallAgain \/ ParseStep

SpecRepeat == InitRepeat /\ [][NextRepeat]_vars

(***************************************************************************)
(* Parse as one function of its argument, os.Args[1:] and the two          *)
(* package-level objects it uses: what it returns or how the process ends, *)
(* and what it leaves behind.                                              *)
(***************************************************************************)
Outcome(r, p, i, reg, cl, c, cf, cs) ==
  [ret |-> r, proc |-> p, inst |-> i, cmds |-> reg, CommandLine |-> cl,
   cmd |-> c, cmdFlags |-> cf, cfs |-> cs]

ParseResult(root, args, registry, cl) ==
  LET zero == ZeroStruct(root.fields)
      v    == IndirectValueOf(root)
  IN
  IF Len(args) = 0
  THEN Outcome("ErrNoArgs", "running", zero, registry, cl, << >>, << >>, NoCfs)
  ELSE IF ~v.valid
  THEN Outcome("none", "panicked", zero, registry, cl, << >>, << >>, NoCfs)
  ELSE IF v.kind # "struct"
  THEN Outcome("ErrWrongType", "running", zero, registry, cl, << >>, << >>, NoCfs)
  ELSE
  LET reg  == IterFieldsCmds(v, registry)
      defs == RegisterAll(cl, IterFields(FALSE, v))
  IN
  IF defs.panic
  THEN Outcome("none", "panicked", zero, reg, defs.fs, << >>, << >>, NoCfs)
  ELSE
  LET global == FlagSetParse(defs.fs, args) IN
  IF global.exit
  THEN Outcome("none", "exited", zero, reg, global.fs, << >>, << >>, NoCfs)
  ELSE
  LET bound1 == BindAll(global.fs, zero, IterFields(FALSE, v))
      c      == IdentifyCommand(reg, args)
      cf     == CommandFlags(c, global.fs.args)
      made   == CommandFlagSet(c, v)
  IN
  IF made.panic
  THEN Outcome("none", "panicked", bound1, reg, global.fs, c, cf,
               [built |-> TRUE, parsed |-> FALSE, fs |-> made.fs])
  ELSE
  LET local == FlagSetParse(made.fs, cf)
      cs    == [built |-> TRUE, parsed |-> TRUE, fs |-> local.fs]
  IN
  IF local.exit
  THEN Outcome("none", "exited", bound1, reg, global.fs, c, cf, cs)
  ELSE IF local.err # "nil"
  THEN Outcome("FlagError", "running", bound1, reg, global.fs, c, cf, cs)
  ELSE Outcome("nil", "running", BindAll(local.fs, bound1, IterFields(TRUE, v)),
               reg, global.fs, c, cf, cs)

\* Parse called in a process that has not called it before
FirstParse(root, args) == ParseResult(root, args, {}, NewCommandLine)

\* the steps of Parse, taken one after the other, end as ParseResult says
StepsAgree ==
  (pc \in {"Done", "Dead"} /\ calls = 1) =>
     Outcome(ret, proc, inst, cmds, CommandLine, cmd, cmdFlags, cfs) = FirstParse(s, osArgs)

(***************************************************************************)
(* What an argument vector says, read off the vector itself: the flags     *)
(* written in a run of tokens for a list of fields, and the value written  *)
(* for each.  Used to state the properties below.                          *)
(***************************************************************************)
ScalarKinds == {"bool", "int", "string"}

\* a token written as a flag: "-x..." or "--x...", but not "-" and not "--"
FlagShaped(t) == Len(t) >= 2 /\ t[1] = "-" /\ t # <<"-","-">>

\* the token without its one or two leading minus signs
FlagBody(t) == IF t[2] = "-" THEN Tail0(t, 2) ELSE Tail0(t, 1)

\* the flag name a token writes, and the text after "=" when it writes one
WrittenName(t) ==
  LET b == FlagBody(t)
      e == EqualsAt(b, 2)
  IN  IF e = 0 THEN b ELSE SubSeq(b, 1, e - 1)

HasInlineValue(t) == EqualsAt(FlagBody(t), 2) # 0

InlineValue(t) == Tail0(FlagBody(t), EqualsAt(FlagBody(t), 2))

\* the scalar field of fields that has n as its long name or its short alias, or 0
FieldNamed(fields, n) ==
  LET hits == { i \in 1..Len(fields) :
                  /\ fields[i].kind \in ScalarKinds
                  /\ (ToLower(fields[i].name) = n \/ fields[i].short = n) }
  IN  IF hits = {} THEN 0 ELSE CHOOSE i \in hits : \A j \in hits : i <= j

ZeroFields(fields) == [i \in 1..Len(fields) |-> ZeroOf(fields[i].kind)]

\* read tokens from position k on as flags of fields: a flag-shaped token naming a
\* field, followed by its value unless the field is a bool or the value is written
\* inline; reading ends at the first token that is not such a flag.
\* end: the position where reading ended; vals: per field, the value written last
\* (its zero value when none was); occ: where each field's flags stand
RECURSIVE Written(_, _, _, _)
Written(tokens, k, fields, acc) ==
  IF k > Len(tokens) \/ ~FlagShaped(tokens[k]) THEN [acc EXCEPT !.end = k]
  ELSE
  LET t == tokens[k]
      i == FieldNamed(fields, WrittenName(t))
      Put(text, next) ==
        Written(tokens, next, fields,
                [acc EXCEPT !.vals[i] = SetText(fields[i].kind, text),
                            !.occ = @ \cup {[pos |-> k, field |-> i, name |-> WrittenName(t)]}])
  IN  IF i = 0 THEN [acc EXCEPT !.end = k]
      ELSE IF HasInlineValue(t) THEN Put(InlineValue(t), k + 1)
      ELSE IF fields[i].kind = "bool" THEN Put(<<"t","r","u","e">>, k + 1)
      ELSE IF k + 1 <= Len(tokens) THEN Put(tokens[k + 1], k + 2)
      ELSE [acc EXCEPT !.end = k]

WrittenFlags(tokens, fields) ==
  Written(tokens, 1, fields, [end |-> 1, vals |-> ZeroFields(fields), occ |-> {}])

\* the indexes of the command groups of a schema, and their command names
GroupsOf(fields) == { i \in 1..Len(fields) : fields[i].kind = "struct" }

CommandNames(fields) == { ToLower(fields[i].name) : i \in GroupsOf(fields) }

\* long names and short aliases of the scalar fields are all different
DistinctNames(fields) ==
  LET sc == { i \in 1..Len(fields) : fields[i].kind \in ScalarKinds }
  IN  /\ \A i, j \in sc : i # j =>
             /\ ToLower(fields[i].name) # ToLower(fields[j].name)
             /\ fields[i].short # fields[j].short
      /\ \A i, j \in sc : ToLower(fields[i].name) # fields[j].short

\* the vector read as [global-flags] c [command-flags]: the global flags, the
\* position of the command token (0 when the token after the global flags is no
\* command of the schema), the group it names, and the command's flags
ReadVector(fields, args) ==
  LET g    == WrittenFlags(args, fields)
      here == g.end <= Len(args) /\ args[g.end] \in CommandNames(fields)
      gi   == IF here
              THEN CHOOSE i \in GroupsOf(fields) :
                     /\ ToLower(fields[i].name) = args[g.end]
                     /\ \A j \in GroupsOf(fields) :
                          ToLower(fields[j].name) = args[g.end] => i <= j
              ELSE 0
      rest == IF here THEN Tail0(args, g.end) ELSE << >>
      k    == IF here THEN WrittenFlags(rest, fields[gi].fields)
              ELSE [end |-> 1, vals |-> << >>, occ |-> {}]
  IN  [global |-> g, cpos |-> IF here THEN g.end ELSE 0, group |-> gi,
       rest |-> rest, command |-> k]

\* the vector is [global-flags] c [command-flags] and nothing else
HasCommandForm(fields, args) ==
  LET r == ReadVector(fields, args)
  IN  r.cpos # 0 /\ r.command.end = Len(r.rest) + 1

\* the struct value the vector asks for: global flags in the top-level fields,
\* the command's flags in its group, zero values everywhere else
AskedFor(fields, args) ==
  LET r == ReadVector(fields, args)
  IN  [i \in 1..Len(fields) |->
         IF fields[i].kind = "struct"
         THEN IF i = r.group THEN r.command.vals ELSE ZeroFields(fields[i].fields)
         ELSE r.global.vals[i]]

Returned == pc = "Done"

(***************************************************************************)
(* Properties.                                                             *)
(***************************************************************************)
\* the schema behind the root has no command groups and no two equal flag names
FlatRun ==
  /\ Returned /\ ret = "nil"
  /\ Len(osArgs) > 0
  /\ s \in StructRoots /\ s.ref = "ptr"
  /\ GroupsOf(s.fields) = {}
  /\ DistinctNames(s.fields)

\* the positions of the vector where a flag of field i is written
WrittenAt(fields, args, i) ==
  { k \in 1..Len(args) : FlagShaped(args[k]) /\ FieldNamed(fields, WrittenName(args[k])) = i }

\* the value written for the flag at position k of a field of the given kind
ValueAt(args, k, kind) ==
  IF HasInlineValue(args[k]) THEN SetText(kind, InlineValue(args[k]))
  ELSE IF kind = "bool" THEN BoolVal(TRUE)
  ELSE IF k + 1 <= Len(args) THEN SetText(kind, args[k + 1])
  ELSE Invalid

\* C1 as stated: after Parse returns for a schema without command groups, every
\* field whose long or short flag appears anywhere in the argument vector holds a
\* value given for that flag, and every other field holds its zero value.
C1_WrittenAnywhereIsBound ==
  FlatRun =>
     \A i \in 1..Len(s.fields) :
        LET at     == WrittenAt(s.fields, osArgs, i)
            valued == { k \in at : ValueAt(osArgs, k, s.fields[i].kind).kind # "invalid" }
        IN  /\ at = {} => inst[i] = ZeroOf(s.fields[i].kind)
            /\ valued # {} => \E k \in valued : inst[i] = ValueAt(osArgs, k, s.fields[i].kind)

\* C1 amended: after Parse returns for a schema without command groups, every
\* field whose long or short flag is written in the leading run of flags of the
\* vector (the tokens before the first token that is not a flag, a token after a
\* non-bool flag being its value) holds the value written last for it, and every
\* other field holds its zero value.
C1_LeadingFlagsAreBound ==
  FlatRun => inst = WrittenFlags(osArgs, s.fields).vals

\* C1 witness: a bool field and an int field were bound from the vector
C1_Witness ==
  /\ FlatRun /\ s = PtrTo(FlatSchema)
  /\ inst[1] = BoolVal(TRUE)
  /\ inst[2] = IntVal(7)

\* C2 as stated: for a vector [global-flags] c [command-flags], after Parse
\* returns nil, the top-level fields hold the global flags' values, the fields of
\* group c hold the command flags' values and every other field, those of the
\* other command groups included, holds its zero value.
C2_OnlyTheCommandIsBound ==
  (Returned /\ ret = "nil" /\ s \in StructRoots /\ s.ref = "ptr"
     /\ HasCommandForm(s.fields, osArgs))
  => inst = AskedFor(s.fields, osArgs)

\* the vectors got from args by writing one flag, given by its long name only, by
\* its short alias instead (in the global flags, or in the command's flags)
Respelled(fields, args) ==
  LET r == ReadVector(fields, args)
      Swap(fs, occ, offset) ==
        { [args EXCEPT ![o.pos + offset] = <<"-">> \o fs[o.field].short] :
            o \in { x \in occ :
                      /\ x.name = ToLower(fs[x.field].name)
                      /\ args[x.pos + offset] = <<"-">> \o x.name
                      /\ fs[x.field].short # << >>
                      /\ \A y \in occ : y.field = x.field => y.name = x.name } }
  IN  Swap(fields, r.global.occ, 0)
      \cup (IF r.cpos # 0 THEN Swap(fields[r.group].fields, r.command.occ, r.cpos) ELSE {})

\* the vector is global flags only, or [global-flags] c [command-flags]
WellFormed(fields, args) ==
  \/ WrittenFlags(args, fields).end = Len(args) + 1
  \/ HasCommandForm(fields, args)

\* C3 as stated: writing a field's flag by its short alias instead of its long
\* name, all other arguments equal, leaves the schema instance in the same final
\* state.
C3_SpellingsAgree ==
  (Returned /\ ret = "nil" /\ calls = 1 /\ s \in StructRoots /\ s.ref = "ptr"
     /\ WellFormed(s.fields, osArgs))
  => \A other \in Respelled(s.fields, osArgs) :
        LET o == FirstParse(s, other)
        IN  o.ret = "nil" /\ o.inst = inst

\* a token that begins with "-"
Dashed(t) == t # << >> /\ t[1] = "-"

\* the positions of args that hold a command name not beginning with "-"
CommandsAt(registry, args) ==
  { i \in 1..Len(args) : ~Dashed(args[i]) /\ args[i] \in registry }

Least(S) == CHOOSE i \in S : \A j \in S : i <= j

\* C4: IdentifyCommand returns the leftmost element of args that does not begin
\* with "-" and equals a member of cmds, the empty string when there is none, and
\* never a token that begins with "-".
C4_IdentifyCommand ==
  fnPc = "identified" =>
     /\ IF CommandsAt(fnRegistry, fnArgs) = {} THEN fnOut = << >>
        ELSE fnOut = fnArgs[Least(CommandsAt(fnRegistry, fnArgs))]
     /\ ~Dashed(fnOut)

\* C4 witness: a dashed token equal to a command name is passed over and the
\* command after it is returned
C4_Witness ==
  /\ fnPc = "identified"
  /\ Len(fnArgs) >= 2
  /\ Dashed(fnArgs[1]) /\ fnArgs[1] \in fnRegistry
  /\ fnOut = <<"f","o","o">>

\* C5 as stated: CommandFlags returns the elements after the first element equal
\* to cmd, and an empty sequence whenever cmd is empty or is not an element.
C5_CommandFlags ==
  fnPc = "partitioned" =>
     LET at == { i \in 1..Len(fnArgs) : fnArgs[i] = fnCmd }
     IN  IF fnCmd = << >> \/ at = {} THEN fnOut = << >>
         ELSE fnOut = SubSeq(fnArgs, Least(at) + 1, Len(fnArgs))

\* nothing was defined in any scope, no command name recorded, no field changed
NothingTouched ==
  /\ CommandLine = NewCommandLine
  /\ cfs = NoCfs
  /\ cmds = {}
  /\ inst = ZeroStruct(s.fields)

\* C6: with an empty argument vector Parse returns ErrNoArgs at once, whatever
\* the root is, and defines no flag, records no command name and changes no field.
C6_NoArgs ==
  (Len(osArgs) = 0 /\ pc \notin {"idle", "Start"}) =>
     /\ Returned /\ ret = "ErrNoArgs" /\ proc = "running"
     /\ NothingTouched

\* C6 witness: Parse(nil) with no arguments has returned ErrNoArgs
C6_Witness ==
  /\ Returned /\ ret = "ErrNoArgs"
  /\ s = NilRoot

\* C7 as stated: with arguments and a root that is no struct nor a pointer to
\* one (a nil value and a nil pointer included) Parse returns ErrWrongType before
\* any flag is defined or command name recorded, and changes nothing.
C7_WrongType ==
  (Len(osArgs) > 0 /\ calls = 1 /\ s \notin StructRoots
     /\ pc \notin {"idle", "Start", "ValidateRoot"}) =>
     /\ Returned /\ ret = "ErrWrongType" /\ proc = "running"
     /\ NothingTouched

\* the flag package rejects a token of the arguments given to the FlagSet
Rejects(fs, arguments) == FlagSetParse(fs, arguments).err # "nil"

\* C8 as stated: when a pass rejects a token Parse ends by returning the error;
\* and when the global pass fails the command scope is never built.
C8_ErrorIsReturned ==
  [][ /\ (pc = "ParseGlobalArgs" /\ Rejects(CommandLine, osArgs))
         => (pc' = "Done" /\ ret' = "FlagError" /\ proc' = "running" /\ ~cfs'.built)
      /\ (pc = "ParseCommandArgs" /\ Rejects(cfs.fs, cmdFlags))
         => (pc' = "Done" /\ ret' = "FlagError" /\ proc' = "running") ]_vars

\* C9 as stated: the command name and the command arguments agree on one
\* position of the raw vector: when IdentifyCommand finds the command at index i,
\* the tokens given to the command scope's parser are the raw arguments after i.
C9_OneCommandPosition ==
  (pc = "ParseCommandArgs" /\ cmd # << >>) =>
     cmdFlags = Tail0(osArgs, Least(CommandsAt(cmds, osArgs)))

\* C10 as stated: every Parse call of a process ends as if it were the first call
\* of the process with that root and that argument vector.
C10_EveryCallIsFresh ==
  (pc \in {"Done", "Dead"}) =>
     LET o == FirstParse(s, osArgs)
     IN  /\ ret = o.ret /\ proc = o.proc
         /\ inst = o.inst
         /\ cmd = o.cmd

====
